---- MODULE Spec2Model ----
(***************************************************************************)
(* Model of script.py: fetch the category map and the paginated topic      *)
(* listing of a Discourse forum, filter and enrich the topics, and export  *)
(* them to a text, a CSV and a JSON file.                                  *)
(*                                                                         *)
(* Python values of mixed type are tagged records: IntV(n) for an int,     *)
(* StrV(s) for a string, DateTime(d, k) for a datetime, TimeStr(f, d, k)   *)
(* for a string that spells an instant in the format f.  A dict is a       *)
(* function whose DOMAIN is its set of keys.  An instant is a day and a    *)
(* tick within the day; a date parsed from "%Y-%m-%d" is tick 0 of its day.*)
(***************************************************************************)
EXTENDS Integers, Sequences, FiniteSets, TLC

\* Bound of the model: the number of topics the listing endpoint serves in a run.
MaxTopics == 2

\* ------------------------------------------------------------------ values

None == [none |-> TRUE]
IntV(n) == [int |-> n]
StrV(s) == [str |-> s]
DateTime(d, k) == [day |-> d, tick |-> k]
TimeStr(f, d, k) == [fmt |-> f, day |-> d, tick |-> k]

EmptyDict == [k \in {} |-> None]

\* dict.update(other): the keys of other are added or overwritten.
Update(d, other) ==
    [k \in (DOMAIN d) \cup (DOMAIN other) |-> IF k \in DOMAIN other THEN other[k] ELSE d[k]]

\* dict.get(key, default)
Get(d, key, default) == IF key \in DOMAIN d THEN d[key] ELSE default

Range(f) == {f[x] : x \in DOMAIN f}

\* datetime comparison: chronological order.
Before(a, b) == \/ a.day < b.day
                \/ a.day = b.day /\ a.tick < b.tick

IsDateTime(v) == DOMAIN v = {"day", "tick"}

\* str(v) as the f-strings, the csv writer and json.dump(default=str) render a
\* created_at value: a datetime becomes "YYYY-MM-DD HH:MM:SS", a string stays.
PyStr(v) == IF IsDateTime(v) THEN TimeStr("str", v.day, v.tick) ELSE v

\* str(n) of an int, as the f-strings and map(str, topic_ids) render it.
IntStr(n) == [digits |-> n]

\* str.lower() on the characters of the model's alphabet.
LowerChar(c) == CASE c = "A" -> "a"
                  [] c = "B" -> "b"
                  [] c = "C" -> "c"
                  [] OTHER -> c

Lower(s) == [i \in DOMAIN s |-> LowerChar(s[i])]

\* sub in s
Contains(sub, s) ==
    \E i \in 1..(Len(s) + 1) :
        /\ i + Len(sub) - 1 <= Len(s)
        /\ SubSeq(s, i, i + Len(sub) - 1) = sub

\* bool(keyword): None and the empty string are falsy.
Truthy(kw) == kw # None /\ kw.str # <<>>

\* ------------------------------------------------------------ configuration

WIRE_FORMAT == "%Y-%m-%dT%H:%M:%S.%fZ"
OUTPUT_FILE == "topics_and_categories.txt"
CSV_FILE == "topics_and_categories.csv"
JSON_FILE == "topics_and_categories.json"
page_size == 30

\* datetime.strptime(START_DATE, "%Y-%m-%d"): midnight of the day.
ParseDate(day) == DateTime(day, 0)

StartDates == {None, ParseDate(1)}
EndDates == {None, ParseDate(2)}
Keywords == {None, StrV(<<"a", "B">>)}

\* --------------------------------------------------- the remote forum (mock)

\* The bodies the category endpoint can answer with.
CategoryResponses ==
    { [status |-> 500, categories |-> <<>>],
      [status |-> 200, categories |-> <<>>],
      [status |-> 200, categories |-> <<[id |-> 1, name |-> "General"],
                                        [id |-> 2, name |-> "Support"]>>] }

\* The bodies the user endpoint can answer with.
UserResponses ==
    { [status |-> 500],
      [status |-> 200,
       user |-> [username |-> "alice", created_at |-> TimeStr(WIRE_FORMAT, 0, 0),
                 post_count |-> 12, trust_level |-> 1]] }

\* One entry of topic_list.topics: the fields every entry carries plus optional ones.
Entry(id, title, created_at, optional) ==
    Update([id |-> id, title |-> title, created_at |-> created_at, posts_count |-> 4],
           optional)

ListingTopics ==
    { Entry(1, <<"A", "b", "c">>, TimeStr(WIRE_FORMAT, 1, 0),
            [category_id |-> IntV(1), last_poster_user_id |-> 7,
             last_poster_username |-> "alice", description |-> "about",
             last_posted_at |-> TimeStr(WIRE_FORMAT, 3, 0)]),
      Entry(2, <<"c">>, TimeStr(WIRE_FORMAT, 2, 0),
            [category_id |-> IntV(2), views_count |-> 9]),
      Entry(2, <<"x", "a", "B">>, TimeStr(WIRE_FORMAT, 1, 1),
            [last_poster_user_id |-> 7, description |-> "about"]),
      Entry(1, <<"A", "b", "c">>, TimeStr(WIRE_FORMAT, 2, 1),
            [category_id |-> IntV(5), last_posted_at |-> TimeStr(WIRE_FORMAT, 3, 0)]),
      Entry(3, <<"a", "b">>, TimeStr(WIRE_FORMAT, 0, 1),
            [category_id |-> IntV(1), last_poster_user_id |-> 7]),
      Entry(3, <<"a", "b">>, TimeStr("%Y-%m-%dT%H:%M:%SZ", 1, 1),
            [category_id |-> IntV(1)]) }

\* ------------------------------------------------------------------- state

VARIABLES
    start_date, end_date, KEYWORD,       \* the filters read from the environment
    FETCH_USER_DETAILS, FETCH_TOPIC_DESCRIPTION, FETCH_LAST_POSTED_AT,
    pc,              \* position of the run
    categories,      \* main: the category map
    main_topics,     \* main: the list fetch_all_topics returned
    topics,          \* fetch_all_topics: the accumulated records
    page,            \* fetch_all_topics: the page to request next
    topic_list,      \* fetch_all_topics: the topics of the page being processed
    idx,             \* fetch_all_topics: position of the for loop in topic_list
    error,           \* the exception that ended the run, or "none"
    logged,          \* whether main logged "Failed to fetch topics or categories."
    files,           \* the file system: file name -> content
    requests,        \* the listing requests sent, in order
    served,          \* the listing responses received, in order
    origin,          \* for each record of topics: <<page, position>> of its entry
    userFetch        \* for each record of topics: "none", "ok" or "failed"

config == <<start_date, end_date, KEYWORD,
            FETCH_USER_DETAILS, FETCH_TOPIC_DESCRIPTION, FETCH_LAST_POSTED_AT>>
fetchVars == <<topics, page, topic_list, idx, requests, served, origin, userFetch>>
vars == <<config, pc, categories, main_topics, fetchVars, error, logged, files>>

Init ==
    /\ start_date \in StartDates
    /\ end_date \in EndDates
    /\ KEYWORD \in Keywords
    /\ FETCH_USER_DETAILS \in BOOLEAN
    /\ FETCH_TOPIC_DESCRIPTION \in BOOLEAN
    /\ FETCH_LAST_POSTED_AT \in BOOLEAN
    /\ pc = "list_all_categories"
    /\ categories = EmptyDict
    /\ main_topics = <<>>
    /\ topics = <<>>
    /\ page = 0
    /\ topic_list = <<>>
    /\ idx = 0
    /\ error = "none"
    /\ logged = FALSE
    /\ files = EmptyDict
    /\ requests = <<>>
    /\ served = <<>>
    /\ origin = <<>>
    /\ userFetch = <<>>

\* ------------------------------------------------------ list_all_categories

\* {category['id']: category['name'] for category in categories}
CategoryDict(cats) ==
    [id \in {cats[i].id : i \in DOMAIN cats} |->
        LET last == CHOOSE i \in DOMAIN cats :
                        /\ cats[i].id = id
                        /\ \A j \in DOMAIN cats : cats[j].id = id => j <= i
        IN cats[last].name]

list_all_categories(response) ==
    IF response.status = 200 THEN CategoryDict(response.categories) ELSE EmptyDict

ListAllCategories ==
    /\ pc = "list_all_categories"
    /\ \E response \in CategoryResponses :
           categories' = list_all_categories(response)
    /\ pc' = "while"
    /\ UNCHANGED <<config, main_topics, fetchVars, error, logged, files>>

\* -------------------------------------------------------- fetch_user_details

\* Faulty variant: a failed fetch yields placeholder details instead of the empty dict.
fetch_user_details_Placeholder(response) ==
    IF response.status = 200
    THEN [username |-> response.user.username,
          created_at |-> response.user.created_at,
          post_count |-> response.user.post_count]
    ELSE [username |-> "Unknown", post_count |-> 0]

fetch_user_details(response) ==
    IF response.status = 200
    THEN [username |-> response.user.username,
          created_at |-> response.user.created_at,
          post_count |-> response.user.post_count]
    ELSE EmptyDict

\* ----------------------------------------------------------- fetch_all_topics

\* datetime.strptime(s, "%Y-%m-%dT%H:%M:%S.%fZ") raises ValueError on another format.
\* Faulty variant: a timestamp without fractional seconds is accepted too.
ParsesAsWire_Lenient(s) == s.fmt \in {WIRE_FORMAT, "%Y-%m-%dT%H:%M:%SZ"}

ParsesAsWire(s) == s.fmt = WIRE_FORMAT
ParseWire(s) == DateTime(s.day, s.tick)

\* The three filters of the for loop: TRUE when the topic is kept.
PassesDate(created) ==
    /\ ~(start_date # None /\ Before(created, start_date))
    /\ ~(end_date # None /\ Before(end_date, created))

\* Faulty variant: the title is not lowercased before the test.
PassesKeyword_TitleAsIs(title) ==
    ~(Truthy(KEYWORD) /\ ~Contains(Lower(KEYWORD.str), title))

PassesKeyword(title) ==
    ~(Truthy(KEYWORD) /\ ~Contains(Lower(KEYWORD.str), Lower(title)))

PassesFilters(topic) ==
    /\ PassesDate(ParseWire(topic.created_at))
    /\ PassesKeyword(topic.title)

BaseDetails(topic) ==
    [id |-> topic.id,
     title |-> topic.title,
     category_id |-> Get(topic, "category_id", StrV("Unknown")),
     created_at |-> ParseWire(topic.created_at),
     posts_count |-> topic.posts_count,
     views_count |-> Get(topic, "views_count", 0),
     user |-> Get(topic, "last_poster_username", "Unknown")]

WantsUserDetails(topic) ==
    FETCH_USER_DETAILS /\ "last_poster_user_id" \in DOMAIN topic

MergeUserDetails(details, user_details) == Update(details, user_details)

CopyDescription(details, topic) ==
    IF FETCH_TOPIC_DESCRIPTION /\ "description" \in DOMAIN topic
    THEN Update(details, [description |-> topic.description])
    ELSE details

CopyLastPostedAt(details, topic) ==
    IF FETCH_LAST_POSTED_AT /\ "last_posted_at" \in DOMAIN topic
    THEN Update(details, [last_posted_at |-> topic.last_posted_at])
    ELSE details

\* The record appended for a kept topic; user_details is {} when nothing was fetched.
TopicDetails(topic, user_details) ==
    CopyLastPostedAt(
        CopyDescription(MergeUserDetails(BaseDetails(topic), user_details), topic),
        topic)

TopicsServed ==
    LET RECURSIVE Sum(_)
        Sum(n) == IF n = 0 THEN 0 ELSE Len(served[n].topics) + Sum(n - 1)
    IN Sum(Len(served))

\* Faulty variant: a failed page is skipped instead of ending the loop.
Breaks_SkipsFailedPage(response) == response.status = 200 /\ response.topics = <<>>

\* The two break tests of the while loop: a non-success status, an empty page.
Breaks(response) == response.status # 200 \/ response.topics = <<>>

\* while True: one listing request; on a break fetch_all_topics returns topics.
RequestPage ==
    /\ pc = "while"
    /\ \E status \in {200, 500}, n \in 0..(MaxTopics - TopicsServed) :
       \E body \in [1..n -> ListingTopics] :
         LET response == [status |-> status,
                          topics |-> IF status = 200 THEN body ELSE <<>>]
         IN /\ status # 200 => n = 0
            /\ requests' = Append(requests, [page |-> page, per_page |-> page_size])
            /\ served' = Append(served, response)
            /\ IF Breaks(response)
               THEN /\ pc' = "returned"
                    /\ main_topics' = topics
                    /\ UNCHANGED <<topic_list, idx>>
               ELSE /\ pc' = "for"
                    /\ topic_list' = response.topics
                    /\ idx' = 1
                    /\ UNCHANGED main_topics
    /\ UNCHANGED <<config, categories, topics, page, origin, userFetch,
                   error, logged, files>>

\* The timestamp of the topic does not parse: ValueError leaves the script.
ParseFailure ==
    /\ pc = "for"
    /\ idx <= Len(topic_list)
    /\ ~ParsesAsWire(topic_list[idx].created_at)
    /\ pc' = "crashed"
    /\ error' = "ValueError"
    /\ UNCHANGED <<config, categories, main_topics, fetchVars, logged, files>>

\* A filter rejects the topic: continue.
SkipTopic ==
    /\ pc = "for"
    /\ idx <= Len(topic_list)
    /\ ParsesAsWire(topic_list[idx].created_at)
    /\ ~PassesFilters(topic_list[idx])
    /\ idx' = idx + 1
    /\ UNCHANGED <<config, pc, categories, main_topics, topics, page, topic_list,
                   requests, served, origin, userFetch, error, logged, files>>

\* The topic is kept: build its record, enrich it, append it.
AppendTopic ==
    /\ pc = "for"
    /\ idx <= Len(topic_list)
    /\ ParsesAsWire(topic_list[idx].created_at)
    /\ PassesFilters(topic_list[idx])
    /\ LET topic == topic_list[idx]
       IN IF WantsUserDetails(topic)
          THEN \E response \in UserResponses :
                 /\ topics' = Append(topics,
                                     TopicDetails(topic, fetch_user_details(response)))
                 /\ userFetch' = Append(userFetch,
                                        IF response.status = 200 THEN "ok" ELSE "failed")
          ELSE /\ topics' = Append(topics, TopicDetails(topic, EmptyDict))
               /\ userFetch' = Append(userFetch, "none")
    /\ origin' = Append(origin, <<page, idx>>)
    /\ idx' = idx + 1
    /\ UNCHANGED <<config, pc, categories, main_topics, page, topic_list,
                   requests, served, error, logged, files>>

\* Faulty variant: the page index is not advanced.
NextPage_Stuck(p) == p

\* page += 1
NextPage(p) == p + 1

\* The for loop is over: log the page and go on to the next one.
EndPage ==
    /\ pc = "for"
    /\ idx > Len(topic_list)
    /\ page' = NextPage(page)
    /\ pc' = "while"
    /\ UNCHANGED <<config, categories, main_topics, topics, topic_list, idx,
                   requests, served, origin, userFetch, error, logged, files>>

\* ------------------------------------------------ save_topics_and_categories

\* categories.get(topic["category_id"], "Unknown Category")
CategoryName(topic, cats) ==
    LET c == topic.category_id
    IN IF "int" \in DOMAIN c /\ c.int \in DOMAIN cats
       THEN cats[c.int]
       ELSE "Unknown Category"

\* Faulty variant: the list of an existing group is replaced instead of extended.
AddToGroup_Replaces(grouped, name, id) ==
    IF \E g \in DOMAIN grouped : grouped[g].category = name
    THEN [g \in DOMAIN grouped |->
            IF grouped[g].category = name
            THEN [grouped[g] EXCEPT !.topic_ids = <<id>>]
            ELSE grouped[g]]
    ELSE Append(grouped, [category |-> name, topic_ids |-> <<id>>])

\* grouped_topics[category_name].append(topic["id"]), creating the list when missing;
\* grouped is the dict in insertion order.
AddToGroup(grouped, name, id) ==
    IF \E g \in DOMAIN grouped : grouped[g].category = name
    THEN [g \in DOMAIN grouped |->
            IF grouped[g].category = name
            THEN [grouped[g] EXCEPT !.topic_ids = Append(@, id)]
            ELSE grouped[g]]
    ELSE Append(grouped, [category |-> name, topic_ids |-> <<id>>])

\* category_count[category_name] += 1 raises KeyError when the name has no entry.
CountRaises(category_count, name) == name \notin DOMAIN category_count

Increment(category_count, name) == [category_count EXCEPT ![name] = @ + 1]

\* The grouping loop over the first n topics: the two dicts, and whether it raised.
RECURSIVE GroupTopics(_, _, _)
GroupTopics(ts, cats, n) ==
    IF n = 0
    THEN [grouped_topics |-> <<>>,
          category_count |-> [name \in Range(cats) |-> 0],
          raised |-> FALSE]
    ELSE LET prev == GroupTopics(ts, cats, n - 1)
             name == CategoryName(ts[n], cats)
         IN IF prev.raised \/ CountRaises(prev.category_count, name)
            THEN [prev EXCEPT !.raised = TRUE]
            ELSE [grouped_topics |-> AddToGroup(prev.grouped_topics, name, ts[n].id),
                  category_count |-> Increment(prev.category_count, name),
                  raised |-> FALSE]

\* The block of one topic in the "### Topics ###" section of the text file.
TextBlock(topic, cats) ==
    LET line == [id |-> IntStr(topic.id),
                 title |-> topic.title,
                 category |-> CategoryName(topic, cats),
                 posts |-> IntStr(topic.posts_count),
                 views |-> IntStr(topic.views_count),
                 user |-> topic.user,
                 created_at |-> PyStr(topic.created_at)]
        desc == IF "description" \in DOMAIN topic
                THEN [description |-> topic.description] ELSE EmptyDict
        last == IF "last_posted_at" \in DOMAIN topic
                THEN [last_posted_at |-> topic.last_posted_at] ELSE EmptyDict
        user == IF FETCH_USER_DETAILS
                THEN [user_details |->
                        [username |-> Get(topic, "username", "N/A"),
                         registered_at |-> PyStr(Get(topic, "created_at", StrV("N/A"))),
                         post_count |-> IF "post_count" \in DOMAIN topic
                                        THEN IntStr(topic.post_count) ELSE StrV("N/A")]]
                ELSE EmptyDict
    IN Update(Update(Update(line, desc), last), user)

\* The three sections of the text file.  The category directory is the set of its
\* lines; the other two sections keep the order of the lists they are written from.
TextFile(ts, cats, groups) ==
    [categories |-> {[id |-> IntStr(id), name |-> cats[id]] : id \in DOMAIN cats},
     topics |-> [k \in DOMAIN ts |-> TextBlock(ts[k], cats)],
     grouped |-> [g \in DOMAIN groups.grouped_topics |->
                    LET entry == groups.grouped_topics[g]
                    IN [category |-> entry.category,
                        topic_ids |-> [j \in DOMAIN entry.topic_ids |->
                                          IntStr(entry.topic_ids[j])],
                        total |-> groups.category_count[entry.category]]]]

\* One row of the CSV file.
CsvRow(topic, cats) ==
    [topic_id |-> IntStr(topic.id),
     title |-> topic.title,
     category |-> CategoryName(topic, cats),
     post_count |-> IntStr(topic.posts_count),
     views |-> IntStr(topic.views_count),
     user |-> topic.user,
     created_at |-> PyStr(topic.created_at),
     description |-> Get(topic, "description", "N/A"),
     last_posted_at |-> Get(topic, "last_posted_at", StrV("N/A")),
     user_details |->
        [username |-> Get(topic, "username", "N/A"),
         registered_at |-> PyStr(Get(topic, "created_at", StrV("N/A"))),
         posts |-> IF "post_count" \in DOMAIN topic
                   THEN IntStr(topic.post_count) ELSE StrV("N/A")]]

CsvFile(ts, cats) == [k \in DOMAIN ts |-> CsvRow(ts[k], cats)]

\* json.dump(topics, default=str): created_at is the one value that can be a
\* datetime, which default=str renders.
JsonFile(ts) ==
    [k \in DOMAIN ts |->
        [key \in DOMAIN ts[k] |->
            IF key = "created_at" THEN PyStr(ts[k][key]) ELSE ts[k][key]]]

save_topics_and_categories(ts, cats) ==
    LET groups == GroupTopics(ts, cats, Len(ts))
    IN IF groups.raised
       THEN [raised |-> TRUE, files |-> EmptyDict]
       ELSE [raised |-> FALSE,
             files |-> (OUTPUT_FILE :> TextFile(ts, cats, groups))
                       @@ (CSV_FILE :> CsvFile(ts, cats))
                       @@ (JSON_FILE :> JsonFile(ts))]

\* --------------------------------------------------------------------- main

\* if topics and categories: save_topics_and_categories(topics, categories)
MainSave ==
    /\ pc = "returned"
    /\ main_topics # <<>> /\ DOMAIN categories # {}
    /\ LET out == save_topics_and_categories(main_topics, categories)
       IN IF out.raised
          THEN /\ pc' = "crashed"
               /\ error' = "KeyError"
               /\ UNCHANGED files
          ELSE /\ pc' = "done"
               /\ files' = Update(files, out.files)
               /\ UNCHANGED error
    /\ UNCHANGED <<config, categories, main_topics, fetchVars, logged>>

\* else: logging.error("Failed to fetch topics or categories.")
MainFail ==
    /\ pc = "returned"
    /\ ~(main_topics # <<>> /\ DOMAIN categories # {})
    /\ logged' = TRUE
    /\ pc' = "done"
    /\ UNCHANGED <<config, categories, main_topics, fetchVars, error, files>>

Next ==
    \/ ListAllCategories
    \/ RequestPage
    \/ ParseFailure
    \/ SkipTopic
    \/ AppendTopic
    \/ EndPage
    \/ MainSave
    \/ MainFail

Spec == Init /\ [][Next]_vars

\* ------------------------------------------------------------- the claims

\* fetch_all_topics has returned its list to main.
Returned == pc \in {"returned", "done"} \/ error = "KeyError"

\* The positions <<page, i>> of the entries of the first n responses, in the order
\* the listing served them.
RECURSIVE Positions(_)
Positions(n) ==
    IF n = 0 THEN <<>>
    ELSE Positions(n - 1) \o [i \in DOMAIN served[n].topics |-> <<n - 1, i>>]

EntryAt(pos) == served[pos[1] + 1].topics[pos[2]]

\* A created_at string as the instant it spells, read off the fixed wire format.
WireInstant(s) == [day |-> s.day, tick |-> s.tick]

NotBefore(a, b) == a.day > b.day \/ (a.day = b.day /\ a.tick >= b.tick)

\* The date range of the configuration, both bounds inclusive; an unset bound is open.
InDateRange(t) ==
    /\ start_date # None => NotBefore(t, start_date)
    /\ end_date # None => NotBefore(end_date, t)

SameLetter(c, d) == c = d \/ {c, d} \in {{"a", "A"}, {"b", "B"}, {"c", "C"}}

\* title contains keyword when case is ignored.
ContainsIgnoringCase(title, keyword) ==
    \E i \in 0..(Len(title) - Len(keyword)) :
        \A j \in 1..Len(keyword) : SameLetter(title[i + j], keyword[j])

KeepsEntry(topic) ==
    /\ InDateRange(WireInstant(topic.created_at))
    /\ Truthy(KEYWORD) => ContainsIgnoringCase(topic.title, KEYWORD.str)

\* The positions of the entries of all served pages that pass the filters.
KeptPositions == SelectSeq(Positions(Len(served)), LAMBDA pos : KeepsEntry(EntryAt(pos)))

\* The keys and values a record takes from its listing entry alone.
ListingFields(topic) ==
    [id |-> topic.id,
     title |-> topic.title,
     category_id |-> IF "category_id" \in DOMAIN topic
                     THEN topic.category_id ELSE StrV("Unknown"),
     created_at |-> WireInstant(topic.created_at),
     posts_count |-> topic.posts_count,
     views_count |-> IF "views_count" \in DOMAIN topic THEN topic.views_count ELSE 0,
     user |-> IF "last_poster_username" \in DOMAIN topic
              THEN topic.last_poster_username ELSE "Unknown"]

CopiedKeys(topic) ==
    {k \in {"description"} : FETCH_TOPIC_DESCRIPTION /\ k \in DOMAIN topic}
    \cup {k \in {"last_posted_at"} : FETCH_LAST_POSTED_AT /\ k \in DOMAIN topic}

UserKeys == {"username", "created_at", "post_count"}

\* record is a record built from entry: the listing fields, the copied optional
\* fields, and nothing else but the fields of a user fetch.
BuiltFrom(record, topic) ==
    /\ (DOMAIN ListingFields(topic)) \cup CopiedKeys(topic) \subseteq DOMAIN record
    /\ DOMAIN record \subseteq (DOMAIN ListingFields(topic)) \cup CopiedKeys(topic) \cup UserKeys
    /\ \A k \in (DOMAIN ListingFields(topic)) \ UserKeys : record[k] = ListingFields(topic)[k]
    /\ \A k \in CopiedKeys(topic) : record[k] = topic[k]

\* The returned list holds one record per kept entry of the served pages, in order.
ReturnsKeptEntries ==
    /\ origin = KeptPositions
    /\ Len(main_topics) = Len(origin)
    /\ \A k \in DOMAIN main_topics : BuiltFrom(main_topics[k], EntryAt(origin[k]))

\* The pages requested so far are 0, 1, 2, ... in that order, one response each, and
\* a response that ends the loop is the last one.
RequestsInOrder ==
    /\ Len(requests) = Len(served)
    /\ \A i \in DOMAIN requests : requests[i].page = i - 1
    /\ \A i \in DOMAIN served :
          (served[i].status # 200 \/ served[i].topics = <<>>) => i = Len(served)

LastResponse == served[Len(served)]

\* C1: when pages 0..N-1 are successful and non-empty and page N is successful
\* and empty, fetch_all_topics requests exactly the pages 0..N in order and returns
\* the records of the filter-passing entries of pages 0..N-1, in listing order.
C1_HaltsOnEmptyPage ==
    /\ RequestsInOrder
    /\ \A i \in DOMAIN served :
          (served[i].status = 200 /\ served[i].topics = <<>>) => Returned
    /\ (Returned /\ LastResponse.status = 200) =>
          /\ LastResponse.topics = <<>>
          /\ ReturnsKeptEntries

C1_Witness ==
    /\ Returned
    /\ Len(served) = 3
    /\ LastResponse.status = 200
    /\ Len(main_topics) = 2

\* C2: when page N answers with a non-success status after N successful non-empty
\* pages, fetch_all_topics stops without another request and returns the records
\* accumulated from pages 0..N-1 (the empty list when N = 0).
C2_StopsOnFailure ==
    /\ \A i \in DOMAIN served :
          served[i].status # 200 => (i = Len(served) /\ Returned)
    /\ (Returned /\ LastResponse.status # 200) =>
        /\ Len(requests) = Len(served)
        /\ \A i \in 1..(Len(served) - 1) :
              served[i].status = 200 /\ served[i].topics # <<>>
        /\ ReturnsKeptEntries
        /\ Len(served) = 1 => main_topics = <<>>

C2_Witness ==
    /\ Returned
    /\ Len(served) = 3
    /\ LastResponse.status # 200
    /\ Len(main_topics) = 2


\* The instant a created_at value stands for, datetime or string.
InstantOf(v) == [day |-> v.day, tick |-> v.tick]

\* C3: with both dates set, every record of the returned list has a created_at
\* value t with start_date <= t <= end_date, whatever the enrichment flags.
C3_CreatedAtInRange ==
    (Returned /\ start_date # None /\ end_date # None) =>
        \A k \in DOMAIN main_topics :
            /\ NotBefore(InstantOf(main_topics[k].created_at), start_date)
            /\ NotBefore(end_date, InstantOf(main_topics[k].created_at))

\* C4: with a non-empty keyword, every returned record has a title containing the
\* keyword when case is ignored, and every entry of a fetched page that passes the
\* date filter and has such a title is in the returned list.
C4_KeywordFilter ==
    (Returned /\ KEYWORD # None /\ KEYWORD.str # <<>>) =>
        /\ \A k \in DOMAIN main_topics :
              ContainsIgnoringCase(main_topics[k].title, KEYWORD.str)
        /\ \A p \in DOMAIN served : \A i \in DOMAIN served[p].topics :
              LET topic == served[p].topics[i]
              IN (/\ InDateRange(WireInstant(topic.created_at))
                  /\ ContainsIgnoringCase(topic.title, KEYWORD.str))
                 => \E k \in DOMAIN main_topics :
                       /\ origin[k] = <<p - 1, i>>
                       /\ main_topics[k].id = topic.id
                       /\ main_topics[k].title = topic.title

\* A kept title spells the keyword in another case, a rejected one lacks it.
C4_Witness ==
    /\ Returned
    /\ KEYWORD # None /\ KEYWORD.str # <<>>
    /\ \E k \in DOMAIN main_topics : ~Contains(KEYWORD.str, main_topics[k].title)
    /\ Len(main_topics) < Len(Positions(Len(served)))
    /\ \E p \in DOMAIN served : \E i \in DOMAIN served[p].topics :
          /\ InDateRange(WireInstant(served[p].topics[i].created_at))
          /\ ~ContainsIgnoringCase(served[p].topics[i].title, KEYWORD.str)

OutputFiles == {OUTPUT_FILE, CSV_FILE, JSON_FILE}

\* Both fetches returned and main has acted on their results.
RunEnded == pc = "done" \/ error = "KeyError"

\* C5: at the end of a run the three files are written if and only if both the
\* topic list and the category map are non-empty; otherwise none is written and
\* the failure is logged.
C5_FilesIffBothNonEmpty ==
    RunEnded =>
        IF main_topics # <<>> /\ DOMAIN categories # {}
        THEN DOMAIN files = OutputFiles
        ELSE DOMAIN files = {} /\ logged

\* C6: the export never fails on a category lookup: a topic whose category_id is
\* no key of the category map is grouped and counted under "Unknown Category"
\* and the three files are written.
C6_UnknownCategoryFallsBack ==
    (RunEnded /\ main_topics # <<>> /\ DOMAIN categories # {}) =>
        /\ error = "none"
        /\ DOMAIN files = OutputFiles
        /\ \A k \in DOMAIN main_topics :
              LET c == main_topics[k].category_id
              IN ("int" \notin DOMAIN c \/ c.int \notin DOMAIN categories) =>
                    \E g \in DOMAIN files[OUTPUT_FILE].grouped :
                        /\ files[OUTPUT_FILE].grouped[g].category = "Unknown Category"
                        /\ \E j \in DOMAIN files[OUTPUT_FILE].grouped[g].topic_ids :
                              files[OUTPUT_FILE].grouped[g].topic_ids[j]
                                 = IntStr(main_topics[k].id)

\* The grouped-by-category section, once the text file is written.
GroupedSection == files[OUTPUT_FILE].grouped

\* How often id is listed in the grouped section, over all groups.
TimesListed(id) ==
    LET RECURSIVE Sum(_)
        Sum(g) == IF g = 0 THEN 0
                  ELSE Cardinality({j \in DOMAIN GroupedSection[g].topic_ids :
                                       GroupedSection[g].topic_ids[j] = IntStr(id)})
                       + Sum(g - 1)
    IN Sum(Len(GroupedSection))

TimesFetched(id) == Cardinality({k \in DOMAIN main_topics : main_topics[k].id = id})

SumOfTotals ==
    LET RECURSIVE Sum(_)
        Sum(g) == IF g = 0 THEN 0 ELSE GroupedSection[g].total + Sum(g - 1)
    IN Sum(Len(GroupedSection))

ListedIds == {main_topics[k].id : k \in DOMAIN main_topics}

\* C7 as claimed: in the grouped section every topic id is listed exactly once
\* over all groups, and the totals add up to the number of topics.
C7_EachIdOnce ==
    OUTPUT_FILE \in DOMAIN files =>
        /\ \A id \in ListedIds : TimesListed(id) = 1
        /\ SumOfTotals = Len(main_topics)

\* C7 as amended: every topic id is listed as often as the topic list holds it
\* (once when the ids of the list are distinct), each group's total is the number
\* of ids listed under it, and the totals add up to the number of topics.
C7_IdsListedAsFetched ==
    OUTPUT_FILE \in DOMAIN files =>
        /\ \A id \in ListedIds : TimesListed(id) = TimesFetched(id)
        /\ \A g \in DOMAIN GroupedSection :
              GroupedSection[g].total = Len(GroupedSection[g].topic_ids)
        /\ \A g, h \in DOMAIN GroupedSection :
              GroupedSection[g].category = GroupedSection[h].category => g = h
        /\ SumOfTotals = Len(main_topics)

C7_Witness ==
    /\ OUTPUT_FILE \in DOMAIN files
    /\ Len(GroupedSection) = 2
    /\ Cardinality(ListedIds) = 2

\* C8: when the per-user fetch of a topic fails, its record holds the listing
\* fields and the copied optional fields and nothing else, the record is appended,
\* and the remaining topics and pages are processed.
C8_FailedEnrichmentMergesNothing ==
    /\ Len(userFetch) = Len(topics)
    /\ \A k \in DOMAIN topics :
          userFetch[k] = "failed" =>
              LET topic == EntryAt(origin[k])
              IN /\ DOMAIN topics[k] = (DOMAIN ListingFields(topic)) \cup CopiedKeys(topic)
                 /\ \A f \in DOMAIN ListingFields(topic) :
                       topics[k][f] = ListingFields(topic)[f]
                 /\ \A f \in CopiedKeys(topic) : topics[k][f] = topic[f]
    /\ (Returned /\ \E k \in DOMAIN userFetch : userFetch[k] = "failed") =>
          /\ origin = KeptPositions
          /\ main_topics = topics

\* A failed fetch on the first topic, a copied description, and a second record.
C8_Witness ==
    /\ Returned
    /\ Len(main_topics) = 2
    /\ userFetch[1] = "failed"
    /\ "description" \in DOMAIN main_topics[1]
    /\ origin[2][1] = 1

\* The positions <<page, i>> of the served entries whose timestamp is not in the
\* wire format.
Malformed ==
    UNION {{<<p - 1, i>> : i \in {j \in DOMAIN served[p].topics :
                                    served[p].topics[j].created_at.fmt # WIRE_FORMAT}} :
           p \in DOMAIN served}

\* C9: a timestamp that does not match the wire format is not recovered: nothing
\* is returned, no page after that of the topic is requested, no record of that or
\* a later topic is accumulated, and no file is written.
C9_MalformedTimestampAborts ==
    /\ \A pos \in Malformed :
          /\ ~Returned
          /\ pc \in {"for", "crashed"}
          /\ Len(requests) = pos[1] + 1
          /\ \A k \in DOMAIN origin : origin[k][1] = pos[1] => origin[k][2] < pos[2]
          /\ main_topics = <<>>
          /\ DOMAIN files = {}
          /\ ~logged
    /\ error = "ValueError" =>
          /\ pc = "crashed"
          /\ <<page, idx>> \in Malformed
          /\ ~ENABLED Next

C9_Witness ==
    /\ error = "ValueError"
    /\ page = 1
    /\ Len(topics) = 1

\* C10: the merge of a successful user fetch only adds fields: the seven listing
\* fields of the record keep the values built from the listing entry.
C10_MergeKeepsListingFields ==
    \A k \in DOMAIN topics :
        userFetch[k] = "ok" =>
            \A f \in DOMAIN ListingFields(EntryAt(origin[k])) :
                topics[k][f] = ListingFields(EntryAt(origin[k]))[f]

====
